---------------------------- MODULE Spec2Model ----------------------------
(***************************************************************************)
(* A model of greengold (src/src/lib.rs): the typed operand stack (Stack   *)
(* and its methods) and the bytecode interpreter loop (run).               *)
(*                                                                         *)
(* Two specifications:                                                     *)
(*   Spec      - one call of run(code, stack, pc, NullExtender, memory);   *)
(*               one action per match arm of the interpreter loop.         *)
(*   SpecStack - a caller of the Stack API (as tests::it_works is): a      *)
(*               script of method calls applied one after the other to a   *)
(*               Stack; one action per method.                             *)
(*                                                                         *)
(* Abstractions, all stated here:                                          *)
(*   - i64 and usize are IntBits wide (two's complement), not 64.          *)
(*   - an f64 is an exact rational num/den (den > 0, lowest terms), or     *)
(*     +inf (1/0), -inf (-1/0), NaN (0/0).  Rounding and the sign of zero  *)
(*     are not modelled.  Float arithmetic is modelled only on operands    *)
(*     whose numerator and denominator are within FloatCap.                *)
(*   - println! (opcode 'p') has no effect on the modelled state.          *)
(*   - a panic (index out of bounds, division by zero, arithmetic overflow *)
(*     in a build with overflow checks) ends the call with "Panic".        *)
(*   - integer overflow of + - * and unary - depends on the build: it      *)
(*     panics when overflowChecks (debug profile) and wraps otherwise.     *)
(***************************************************************************)
EXTENDS Integers, Sequences, FiniteSets, TLC

VARIABLES
    overflowChecks, \* the build: TRUE = overflow checks on (debug), FALSE = wrapping (release)
    code,           \* run: the program, a sequence of bytes (code[i+1] is byte i)
    stack,          \* the Stack's Vec<Data>; the top is the last element
    pc,             \* run: the program counter (usize, 0-based)
    rstack,         \* run: the return-address stack (Vec<usize>)
    value,          \* run: the literal accumulator (i64)
    divider,        \* run: the literal divider (f64)
    memory,         \* run: the memory array (Vec<Data>)
    instruction,    \* run: the opcode fetched last (-1 before the first fetch)
    result,         \* run: Running, or what run returned
    script,         \* Stack caller: the method calls to make, in order
    done,           \* Stack caller: how many calls of the script have been made
    ret             \* Stack caller: what the last call returned

vars == <<overflowChecks, code, stack, pc, rstack, value, divider, memory,
          instruction, result, script, done, ret>>

runVars == <<code, pc, rstack, value, divider, memory, instruction, result>>
callerVars == <<script, done, ret>>

---------------------------------------------------------------------------
(* Bounds of the model *)

IntBits == 5
MaxCode == 1
MaxScript == 1
MaxInit == 2
MaxStack == 5
MaxRStack == 3
MaxScale == 2
FloatCap == 32
MaxDigits == 2
MaxAddr == 7

---------------------------------------------------------------------------
(* Machine integers *)

RECURSIVE Pow(_, _)
Pow(b, n) == IF n = 0 THEN 1 ELSE b * Pow(b, n - 1)

MinInt == -Pow(2, IntBits - 1)
MaxInt == Pow(2, IntBits - 1) - 1
IntRange == MinInt..MaxInt
UsizeRange == 0..(Pow(2, IntBits) - 1)

InRange(n) == n >= MinInt /\ n <= MaxInt

\* two's complement wrap of a mathematical integer into the machine range
Wrap(n) == ((n - MinInt) % Pow(2, IntBits)) + MinInt

\* `n as usize` for an i64 n
AsUsize(n) == n % Pow(2, IntBits)

Abs(n) == IF n < 0 THEN -n ELSE n
Sgn(n) == IF n < 0 THEN -1 ELSE IF n > 0 THEN 1 ELSE 0

\* Rust's integer / and %: truncating toward zero
TruncDiv(y, x) == Sgn(y) * Sgn(x) * (Abs(y) \div Abs(x))
TruncRem(y, x) == y - x * TruncDiv(y, x)

\* The outcome of an i64 operation: a value, or a panic.
Val(n) == [ok |-> TRUE, v |-> n]
Panicked == [ok |-> FALSE, v |-> 0]

\* + - * and unary - : overflow panics with overflow checks and wraps without
Overflowing(n) == IF InRange(n) THEN Val(n)
                  ELSE IF overflowChecks THEN Panicked ELSE Val(Wrap(n))

IntAdd(x, y) == Overflowing(x + y)
IntSub(y, x) == Overflowing(y - x)
IntMul(y, x) == Overflowing(y * x)
IntNeg(x) == Overflowing(-x)

\* / and % : a zero divisor and MIN / -1 panic in every build
IntDiv(y, x) == IF x = 0 \/ (y = MinInt /\ x = -1) THEN Panicked
                ELSE Val(TruncDiv(y, x))
IntRem(y, x) == IF x = 0 \/ (y = MinInt /\ x = -1) THEN Panicked
                ELSE Val(TruncRem(y, x))

---------------------------------------------------------------------------
(* Data: Int(i64) | Float(f64) *)

RECURSIVE Gcd(_, _)
Gcd(a, b) == IF b = 0 THEN a ELSE Gcd(b, a % b)

DataInt(n) == [tag |-> "Int", v |-> n]

\* a float from a numerator and a denominator >= 0, in lowest terms
DataFloat(a, b) == IF b = 0 THEN [tag |-> "Float", num |-> Sgn(a), den |-> 0]
               ELSE LET g == Gcd(Abs(a), b)
                    IN [tag |-> "Float", num |-> a \div g, den |-> b \div g]

NaN == DataFloat(0, 0)
IsNaN(f) == f.den = 0 /\ f.num = 0
IsInf(f) == f.den = 0 /\ f.num # 0
IsFinite(f) == f.den # 0

\* the operands float arithmetic is modelled on
FloatModelled(f) == Abs(f.num) <= FloatCap /\ f.den <= FloatCap

FNeg(f) == DataFloat(-f.num, f.den)

FAdd(x, y) == IF IsNaN(x) \/ IsNaN(y) THEN NaN
              ELSE IF IsInf(x) /\ IsInf(y) THEN (IF x.num = y.num THEN x ELSE NaN)
              ELSE IF IsInf(x) THEN x
              ELSE IF IsInf(y) THEN y
              ELSE DataFloat(x.num * y.den + y.num * x.den, x.den * y.den)

FSub(y, x) == FAdd(y, FNeg(x))

FMul(y, x) == DataFloat(y.num * x.num, y.den * x.den)

\* y / x : (a/b) / (c/d) = (a*d) / (b*c), the sign of c moved to the numerator
FDiv(y, x) == DataFloat(y.num * x.den * (IF x.num < 0 THEN -1 ELSE 1),
                    y.den * Abs(x.num))

\* the integer part of a finite float, toward zero
FTrunc(f) == Sgn(f.num) * (Abs(f.num) \div f.den)

\* y % x (fmod): y - trunc(y/x) * x; with y = a/b and x = c/d the quotient
\* y/x is (a*d)/(b*c) and the remainder (a*d - q*c*b)/(b*d)
FRem(y, x) == IF IsNaN(x) \/ IsNaN(y) \/ IsInf(y) THEN NaN
              ELSE IF IsInf(x) THEN y
              ELSE IF x.num = 0 THEN NaN
              ELSE DataFloat(y.num * x.den
                               - TruncDiv(y.num * x.den, y.den * x.num) * x.num * y.den,
                             y.den * x.den)

\* `n as f64` for an i64 n
IntAsFloat(n) == DataFloat(n, 1)

\* n != 0.0 and n == 0.0 (both false/true as IEEE has them for NaN)
FloatIsZero(f) == f.den # 0 /\ f.num = 0

---------------------------------------------------------------------------
(* Stack: the methods, as functions from the Vec<Data> to their outcome.   *)
(* An outcome is the Vec afterwards (st), the Result (err: "Ok", an Error, *)
(* "Panic", or "Unmodelled" for float arithmetic beyond FloatCap) and the  *)
(* value returned inside Ok (val).                                         *)

None == [tag |-> "None"]
Outcome(st, err, val) == [st |-> st, err |-> err, val |-> val]

Front(s) == SubSeq(s, 1, Len(s) - 1)
Last(s) == s[Len(s)]

\* Pair::Int(x, y) / Pair::Float(x, y): x was popped first
Pair(tag, x, y) == [tag |-> tag, x |-> x, y |-> y]

StackPush(s, v) == Append(s, v)

\* mutant of StackPop: the top value is returned and left on the stack
StackPopPeeks(s) ==
    IF s = <<>> THEN Outcome(s, "StackUnderflow", None)
    ELSE Outcome(s, "Ok", Last(s))

StackPop(s) ==
    IF s = <<>> THEN Outcome(s, "StackUnderflow", None)
    ELSE Outcome(Front(s), "Ok", Last(s))

\* mutant of StackPopTwo: an Int beside a Float is promoted to a Float
StackPopTwoPromotes(s) ==
    LET a == StackPop(s)
        b == StackPop(a.st)
        AsFloat(d) == IF d.tag = "Int" THEN IntAsFloat(d.v) ELSE d
    IN IF a.err # "Ok" THEN Outcome(b.st, "StackUnderflow", None)
       ELSE IF b.err # "Ok" THEN Outcome(b.st, "StackUnderflow", None)
       ELSE IF a.val.tag = "Int" /\ b.val.tag = "Int"
            THEN Outcome(b.st, "Ok", Pair("Int", a.val.v, b.val.v))
       ELSE Outcome(b.st, "Ok", Pair("Float", AsFloat(a.val), AsFloat(b.val)))

\* mutant of StackPopTwo: a failing pop_two leaves the stack as it found it
StackPopTwoRestores(s) ==
    LET a == StackPop(s)
        b == StackPop(a.st)
    IN IF a.err # "Ok" THEN Outcome(s, "StackUnderflow", None)
       ELSE IF b.err # "Ok" THEN Outcome(s, "StackUnderflow", None)
       ELSE IF a.val.tag = "Float" /\ b.val.tag = "Float"
            THEN Outcome(b.st, "Ok", Pair("Float", a.val, b.val))
       ELSE IF a.val.tag = "Int" /\ b.val.tag = "Int"
            THEN Outcome(b.st, "Ok", Pair("Int", a.val.v, b.val.v))
       ELSE Outcome(s, "TypeMismatch", None)

StackPopTwo(s) ==
    LET a == StackPop(s)
        b == StackPop(a.st)
    IN IF a.err # "Ok" THEN Outcome(b.st, "StackUnderflow", None)
       ELSE IF b.err # "Ok" THEN Outcome(b.st, "StackUnderflow", None)
       ELSE IF a.val.tag = "Float" /\ b.val.tag = "Float"
            THEN Outcome(b.st, "Ok", Pair("Float", a.val, b.val))
       ELSE IF a.val.tag = "Int" /\ b.val.tag = "Int"
            THEN Outcome(b.st, "Ok", Pair("Int", a.val.v, b.val.v))
       ELSE Outcome(b.st, "TypeMismatch", None)

\* `n as i64` for an f64 n: the integer part when it is an i64; otherwise
\* (NaN, an infinity, out of range) the value c, which the build decides
FloatAsInt(f, c) ==
    IF IsFinite(f) /\ InRange(FTrunc(f)) THEN FTrunc(f) ELSE c

StackCastToInt(s, c) ==
    LET r == StackPop(s)
    IN IF r.err # "Ok" THEN Outcome(r.st, r.err, None)
       ELSE IF r.val.tag = "Int" THEN Outcome(StackPush(r.st, r.val), "Ok", None)
       ELSE Outcome(StackPush(r.st, DataInt(FloatAsInt(r.val, c))), "Ok", None)

StackCastToFloat(s) ==
    LET r == StackPop(s)
    IN IF r.err # "Ok" THEN Outcome(r.st, r.err, None)
       ELSE IF r.val.tag = "Int"
            THEN Outcome(StackPush(r.st, IntAsFloat(r.val.v)), "Ok", None)
       ELSE Outcome(StackPush(r.st, r.val), "Ok", None)

StackDup(s) ==
    LET r == StackPop(s)
    IN IF r.err # "Ok" THEN Outcome(r.st, r.err, None)
       ELSE Outcome(StackPush(StackPush(r.st, r.val), r.val), "Ok", None)

\* mutant of StackSwap: the two values are pushed back in the order they had
StackSwapKeepsOrder(s) ==
    LET x == StackPop(s)
        y == StackPop(x.st)
    IN IF x.err # "Ok" THEN Outcome(y.st, x.err, None)
       ELSE IF y.err # "Ok" THEN Outcome(y.st, y.err, None)
       ELSE Outcome(StackPush(StackPush(y.st, y.val), x.val), "Ok", None)

StackSwap(s) ==
    LET x == StackPop(s)
        y == StackPop(x.st)
    IN IF x.err # "Ok" THEN Outcome(y.st, x.err, None)
       ELSE IF y.err # "Ok" THEN Outcome(y.st, y.err, None)
       ELSE Outcome(StackPush(StackPush(y.st, x.val), y.val), "Ok", None)

StackOver(s) ==
    LET x == StackPop(s)
        y == StackPop(x.st)
    IN IF x.err # "Ok" THEN Outcome(y.st, x.err, None)
       ELSE IF y.err # "Ok" THEN Outcome(y.st, y.err, None)
       ELSE Outcome(StackPush(StackPush(StackPush(y.st, y.val), x.val), y.val),
                    "Ok", None)

\* what add, sub, mul, div and modulus share: pop_two, then push the result
\* of the Int operation (i) or of the Float operation (f)
PushInt(st, i) ==
    IF i.ok THEN Outcome(StackPush(st, DataInt(i.v)), "Ok", None)
    ELSE Outcome(st, "Panic", None)

PushFloat(st, p, f) ==
    IF FloatModelled(p.x) /\ FloatModelled(p.y)
    THEN Outcome(StackPush(st, f), "Ok", None)
    ELSE Outcome(st, "Unmodelled", None)

StackAdd(s) ==
    LET r == StackPopTwo(s)
        p == r.val
    IN IF r.err # "Ok" THEN Outcome(r.st, r.err, None)
       ELSE IF p.tag = "Int" THEN PushInt(r.st, IntAdd(p.x, p.y))
       ELSE PushFloat(r.st, p, FAdd(p.x, p.y))

\* mutant of StackSub: the operands the other way round (x - y)
StackSubReversed(s) ==
    LET r == StackPopTwo(s)
        p == r.val
    IN IF r.err # "Ok" THEN Outcome(r.st, r.err, None)
       ELSE IF p.tag = "Int" THEN PushInt(r.st, IntSub(p.x, p.y))
       ELSE PushFloat(r.st, p, FSub(p.x, p.y))

StackSub(s) ==
    LET r == StackPopTwo(s)
        p == r.val
    IN IF r.err # "Ok" THEN Outcome(r.st, r.err, None)
       ELSE IF p.tag = "Int" THEN PushInt(r.st, IntSub(p.y, p.x))
       ELSE PushFloat(r.st, p, FSub(p.y, p.x))

StackMul(s) ==
    LET r == StackPopTwo(s)
        p == r.val
    IN IF r.err # "Ok" THEN Outcome(r.st, r.err, None)
       ELSE IF p.tag = "Int" THEN PushInt(r.st, IntMul(p.y, p.x))
       ELSE PushFloat(r.st, p, FMul(p.y, p.x))

StackDiv(s) ==
    LET r == StackPopTwo(s)
        p == r.val
    IN IF r.err # "Ok" THEN Outcome(r.st, r.err, None)
       ELSE IF p.tag = "Int" THEN PushInt(r.st, IntDiv(p.y, p.x))
       ELSE PushFloat(r.st, p, FDiv(p.y, p.x))

StackModulus(s) ==
    LET r == StackPopTwo(s)
        p == r.val
    IN IF r.err # "Ok" THEN Outcome(r.st, r.err, None)
       ELSE IF p.tag = "Int" THEN PushInt(r.st, IntRem(p.y, p.x))
       ELSE PushFloat(r.st, p, FRem(p.y, p.x))

---------------------------------------------------------------------------
(* A caller of the Stack API: it makes the calls of a script, in order, on *)
(* one Stack, as tests::it_works does.  An Err returned by a call does not *)
(* stop the caller; a panic does.                                          *)

Call(m, arg) == [m |-> m, arg |-> arg]

Methods == {"pop", "pop_two", "cast_to_int", "cast_to_float", "dup", "swap",
            "over", "add", "sub", "mul", "div", "modulus"}

\* the values the scripts push
PushData == {DataInt(1), DataInt(MaxInt), DataFloat(0, 1), DataFloat(1, 2)}

\* the values the initial stacks hold
InitData == {DataInt(MinInt), DataInt(-1), DataInt(0), DataInt(2), DataInt(MaxInt),
             DataFloat(0, 1), DataFloat(3, 2)}

StackCalls == {Call("push", v) : v \in PushData} \cup {Call(m, None) : m \in Methods}

SeqsUpTo(S, n) == UNION {[1..k -> S] : k \in 0..n}

InitStacks == SeqsUpTo(InitData, MaxInit)

\* stacks of two values above a third
DeepStacks == {<<DataInt(2)>> \o s : s \in [1..2 -> InitData]}
BelowStacks == {<<>>, <<DataInt(2)>>, <<DataInt(-1), DataFloat(3, 2)>>}

\* every script of at most MaxScript calls
ShortScripts == SeqsUpTo(StackCalls, MaxScript) \ {<<>>}

\* push(a), push(b), add, push(b), sub
AddSubScript(a, b) ==
    <<Call("push", DataInt(a)), Call("push", DataInt(b)), Call("add", None),
      Call("push", DataInt(b)), Call("sub", None)>>
AddSubScripts == {AddSubScript(a, b) : a \in IntRange, b \in IntRange}

\* the calls of tests::it_works
ItWorksScript ==
    <<Call("pop", None), Call("push", DataInt(5)), Call("pop", None),
      Call("push", DataInt(5)), Call("push", DataFloat(2, 1)), Call("pop_two", None),
      Call("cast_to_int", None), Call("push", DataInt(2)), Call("push", DataInt(6)),
      Call("add", None), Call("pop", None)>>

\* two-call scripts: a push then a pop, and every pair of argument-less calls
\* that starts with swap, over or pop_two
PairScripts ==
    {<<Call("push", v), Call("pop", None)>> : v \in PushData}
    \cup {<<Call(m, None), Call(n, None)>> :
              m \in {"swap", "over", "pop_two"}, n \in Methods}

NoRet == [err |-> "None", val |-> None]
Returned(r) == [err |-> r.err, val |-> r.val]

InitIdleRun ==
    /\ code = <<>>
    /\ pc = 0
    /\ rstack = <<>>
    /\ value = 0
    /\ divider = DataFloat(1, 1)
    /\ memory = <<>>
    /\ instruction = -1
    /\ result = [kind |-> "Idle"]

InitStack ==
    /\ overflowChecks \in BOOLEAN
    /\ \/ script \in ShortScripts \cup PairScripts /\ stack \in InitStacks \cup DeepStacks
       \/ script \in AddSubScripts /\ stack \in BelowStacks
       \/ script = ItWorksScript /\ stack = <<>>
    /\ done = 0
    /\ ret = NoRet
    /\ InitIdleRun

\* the next call of the script is a call of method m
Calling(m) ==
    /\ result.kind = "Idle"
    /\ done < Len(script)
    /\ ret.err # "Panic"
    /\ script[done + 1].m = m

\* the call returns outcome r
Returns(r) ==
    /\ r.err # "Unmodelled"
    /\ Len(r.st) <= MaxStack
    /\ stack' = r.st
    /\ ret' = Returned(r)
    /\ done' = done + 1
    /\ UNCHANGED <<overflowChecks, script, runVars>>

CallPush ==
    /\ Calling("push")
    /\ Returns(Outcome(StackPush(stack, script[done + 1].arg), "Ok", None))

CallPop == Calling("pop") /\ Returns(StackPop(stack))

CallPopTwo == Calling("pop_two") /\ Returns(StackPopTwo(stack))

CallCastToInt ==
    /\ Calling("cast_to_int")
    /\ \E c \in IntRange : Returns(StackCastToInt(stack, c))

CallCastToFloat == Calling("cast_to_float") /\ Returns(StackCastToFloat(stack))

CallDup == Calling("dup") /\ Returns(StackDup(stack))

CallSwap == Calling("swap") /\ Returns(StackSwap(stack))

CallOver == Calling("over") /\ Returns(StackOver(stack))

CallAdd == Calling("add") /\ Returns(StackAdd(stack))

CallSub == Calling("sub") /\ Returns(StackSub(stack))

CallMul == Calling("mul") /\ Returns(StackMul(stack))

CallDiv == Calling("div") /\ Returns(StackDiv(stack))

CallModulus == Calling("modulus") /\ Returns(StackModulus(stack))

NextStack ==
    \/ CallPush
    \/ CallPop
    \/ CallPopTwo
    \/ CallCastToInt
    \/ CallCastToFloat
    \/ CallDup
    \/ CallSwap
    \/ CallOver
    \/ CallAdd
    \/ CallSub
    \/ CallMul
    \/ CallDiv
    \/ CallModulus

SpecStack == InitStack /\ [][NextStack]_vars

---------------------------------------------------------------------------
(* run(code, stack, pc, NullExtender, memory)                              *)

Running == [kind |-> "Running"]
ReturnedOk == [kind |-> "Ok"]
ReturnedErr(p, e) == [kind |-> "Err", pc |-> p, error |-> e]
Panic == [kind |-> "Panic"]

Digits == 48..57
BuiltinOpcodes == {10, 13, 32, 34, 35, 36, 37, 39, 42, 43, 45, 46, 47} \cup Digits
                  \cup {59, 82, 87, 98, 99, 100, 112, 114, 115, 118, 121, 122}

\* mutant of NullExtenderAtom: the default extension accepts every byte
NullExtenderAtomAccepts(byte, s) == Outcome(s, "Ok", None)

\* NullExtender::atom
NullExtenderAtom(byte, s) == Outcome(s, "InvalidInstruction", None)

\* `while pc < code.len() { let instruction = code[pc]; pc += 1; match instruction`
\* with the arm of one of the opcodes ops
Fetch(ops) ==
    /\ result.kind = "Running"
    /\ pc < Len(code)
    /\ code[pc + 1] \in ops
    /\ instruction' = code[pc + 1]

\* an arm that is one Stack method call: `if let Err(n) = stack.m() { return Err((pc, n)); }`
\* where r is the outcome of the call
StackArm(r) ==
    /\ r.err # "Unmodelled"
    /\ Len(r.st) <= MaxStack
    /\ stack' = r.st
    /\ pc' = pc + 1
    /\ result' = IF r.err = "Ok" THEN Running
                 ELSE IF r.err = "Panic" THEN Panic
                 ELSE ReturnedErr(pc + 1, r.err)
    /\ UNCHANGED <<overflowChecks, code, rstack, value, divider, memory, callerVars>>

\* mutant of OpWhitespace: an ignored byte is not stepped over
OpWhitespaceStays ==
    /\ Fetch({10, 13, 32})
    /\ UNCHANGED <<overflowChecks, code, stack, pc, rstack, value, divider, memory,
                   result, callerVars>>

\* 10, 13, 32: line feed, carriage return, space
OpWhitespace ==
    /\ Fetch({10, 13, 32})
    /\ pc' = pc + 1
    /\ UNCHANGED <<overflowChecks, code, stack, rstack, value, divider, memory,
                   result, callerVars>>

\* 34 '"': push constant as float
OpPushFloat ==
    /\ Fetch({34})
    /\ Len(stack) < MaxStack
    /\ stack' = StackPush(stack, FDiv(IntAsFloat(value), divider))
    /\ pc' = pc + 1
    /\ UNCHANGED <<overflowChecks, code, rstack, value, divider, memory, result,
                   callerVars>>

\* 35 '#': load constant
OpReset ==
    /\ Fetch({35})
    /\ value' = 0
    /\ divider' = DataFloat(1, 1)
    /\ pc' = pc + 1
    /\ UNCHANGED <<overflowChecks, code, stack, rstack, memory, result, callerVars>>

\* 36 '$': invert constant
OpNegate ==
    /\ Fetch({36})
    /\ LET n == IntNeg(value)
       IN /\ value' = IF n.ok THEN n.v ELSE value
          /\ result' = IF n.ok THEN Running ELSE Panic
    /\ pc' = pc + 1
    /\ UNCHANGED <<overflowChecks, code, stack, rstack, divider, memory, callerVars>>

\* 37 '%'
OpModulus == Fetch({37}) /\ StackArm(StackModulus(stack))

\* mutant of OpPushInt: the accumulator is reset once its value is pushed
OpPushIntResets ==
    /\ Fetch({39})
    /\ Len(stack) < MaxStack
    /\ stack' = StackPush(stack, DataInt(value))
    /\ value' = 0
    /\ divider' = DataFloat(1, 1)
    /\ pc' = pc + 1
    /\ UNCHANGED <<overflowChecks, code, rstack, memory, result, callerVars>>

\* 39 "'": push constant as integer
OpPushInt ==
    /\ Fetch({39})
    /\ Len(stack) < MaxStack
    /\ stack' = StackPush(stack, DataInt(value))
    /\ pc' = pc + 1
    /\ UNCHANGED <<overflowChecks, code, rstack, value, divider, memory, result,
                   callerVars>>

\* 42 '*'
OpMul == Fetch({42}) /\ StackArm(StackMul(stack))

\* 43 '+'
OpAdd == Fetch({43}) /\ StackArm(StackAdd(stack))

\* 45 '-'
OpSub == Fetch({45}) /\ StackArm(StackSub(stack))

\* 46 '.': increase the divider by three orders of magnitude
OpScale ==
    /\ Fetch({46})
    /\ divider.num < Pow(1000, MaxScale)
    /\ divider' = FMul(divider, DataFloat(1000, 1))
    /\ pc' = pc + 1
    /\ UNCHANGED <<overflowChecks, code, stack, rstack, value, memory, result,
                   callerVars>>

\* 47 '/'
OpDiv == Fetch({47}) /\ StackArm(StackDiv(stack))

\* mutant of Numeral: the digit is added before the multiplication by ten
NumeralAddsFirst(v, byte) ==
    LET t == IntAdd(v, byte - 48)
    IN IF t.ok THEN IntMul(t.v, 10) ELSE Panicked

\* 48...57: numeral.  value *= 10; value += (instruction as i64) - 48
Numeral(v, byte) ==
    LET t == IntMul(v, 10)
    IN IF t.ok THEN IntAdd(t.v, byte - 48) ELSE Panicked

OpNumeral ==
    /\ Fetch(Digits)
    /\ LET n == Numeral(value, code[pc + 1])
       IN /\ value' = IF n.ok THEN n.v ELSE value
          /\ result' = IF n.ok THEN Running ELSE Panic
    /\ pc' = pc + 1
    /\ UNCHANGED <<overflowChecks, code, stack, rstack, divider, memory, callerVars>>

\* mutant of OpReturn: a return with nothing on the return-address stack
\* is an error (the strict reading)
OpReturnStrict ==
    /\ Fetch({59})
    /\ IF rstack = <<>>
       THEN /\ result' = ReturnedErr(pc + 1, "ReturnStackUnderflow")
            /\ pc' = pc + 1
            /\ rstack' = rstack
       ELSE /\ result' = Running
            /\ pc' = Last(rstack)
            /\ rstack' = Front(rstack)
    /\ UNCHANGED <<overflowChecks, code, stack, value, divider, memory, callerVars>>

\* mutant of OpReturn: the return address is read and left on the
\* return-address stack
OpReturnPeeks ==
    /\ Fetch({59})
    /\ IF rstack = <<>>
       THEN /\ result' = ReturnedOk
            /\ pc' = pc + 1
       ELSE /\ result' = Running
            /\ pc' = Last(rstack)
    /\ UNCHANGED <<overflowChecks, code, stack, rstack, value, divider, memory,
                   callerVars>>

\* 59 ';': return
OpReturn ==
    /\ Fetch({59})
    /\ IF rstack = <<>>
       THEN /\ result' = ReturnedOk
            /\ pc' = pc + 1
            /\ rstack' = rstack
       ELSE /\ result' = Running
            /\ pc' = Last(rstack)
            /\ rstack' = Front(rstack)
    /\ UNCHANGED <<overflowChecks, code, stack, value, divider, memory, callerVars>>

\* mutant of MemIndex: an address past the end is clamped to the last cell
MemIndexClamped(n) == IF AsUsize(n) < Len(memory) THEN AsUsize(n) ELSE Len(memory) - 1

\* mutant of MemIndex: the signed address is reduced modulo the length
MemIndexSigned(n) == n % Len(memory)

\* memory[(n as usize) % memory.len()]: the index, 0-based
MemIndex(n) == AsUsize(n) % Len(memory)

\* mutant of OpRead: with a memory of no cells the read faults before it
\* pops the address
OpReadFaultsFirst ==
    /\ Fetch({82})
    /\ LET a == StackPop(stack)
       IN IF Len(memory) = 0
          THEN stack' = stack /\ result' = Panic
          ELSE IF a.err # "Ok"
          THEN stack' = a.st /\ result' = ReturnedErr(pc + 1, a.err)
          ELSE IF a.val.tag = "Float"
          THEN stack' = a.st /\ result' = ReturnedErr(pc + 1, "TypeMismatch")
          ELSE /\ stack' = StackPush(a.st, memory[MemIndex(a.val.v) + 1])
               /\ result' = Running
    /\ pc' = pc + 1
    /\ UNCHANGED <<overflowChecks, code, rstack, value, divider, memory, callerVars>>

\* 82 'R': read from memory
OpRead ==
    /\ Fetch({82})
    /\ LET a == StackPop(stack)
       IN IF a.err # "Ok"
          THEN stack' = a.st /\ result' = ReturnedErr(pc + 1, a.err)
          ELSE IF a.val.tag = "Float"
          THEN stack' = a.st /\ result' = ReturnedErr(pc + 1, "TypeMismatch")
          ELSE IF Len(memory) = 0
          THEN stack' = a.st /\ result' = Panic
          ELSE /\ stack' = StackPush(a.st, memory[MemIndex(a.val.v) + 1])
               /\ result' = Running
    /\ pc' = pc + 1
    /\ UNCHANGED <<overflowChecks, code, rstack, value, divider, memory, callerVars>>

\* 87 'W': write to memory
OpWrite ==
    /\ Fetch({87})
    /\ LET a == StackPop(stack)
           v == StackPop(a.st)
       IN /\ stack' = v.st
          /\ IF a.err # "Ok"
             THEN memory' = memory /\ result' = ReturnedErr(pc + 1, a.err)
             ELSE IF v.err # "Ok"
             THEN memory' = memory /\ result' = ReturnedErr(pc + 1, v.err)
             ELSE IF a.val.tag = "Float"
             THEN memory' = memory /\ result' = ReturnedErr(pc + 1, "TypeMismatch")
             ELSE IF Len(memory) = 0
             THEN memory' = memory /\ result' = Panic
             ELSE /\ memory' = [memory EXCEPT ![MemIndex(a.val.v) + 1] = v.val]
                  /\ result' = Running
    /\ pc' = pc + 1
    /\ UNCHANGED <<overflowChecks, code, rstack, value, divider, callerVars>>

\* mutant of OpBranch: the address becomes the pc without the cast to usize
OpBranchSigned ==
    /\ Fetch({98})
    /\ LET a == StackPop(stack)
       IN /\ stack' = a.st
          /\ IF a.err # "Ok"
             THEN pc' = pc + 1 /\ result' = ReturnedErr(pc + 1, a.err)
             ELSE IF a.val.tag = "Float"
             THEN pc' = pc + 1 /\ result' = ReturnedErr(pc + 1, "TypeMismatch")
             ELSE pc' = a.val.v /\ result' = Running
    /\ UNCHANGED <<overflowChecks, code, rstack, value, divider, memory, callerVars>>

\* 98 'b': jump to address
OpBranch ==
    /\ Fetch({98})
    /\ LET a == StackPop(stack)
       IN /\ stack' = a.st
          /\ IF a.err # "Ok"
             THEN pc' = pc + 1 /\ result' = ReturnedErr(pc + 1, a.err)
             ELSE IF a.val.tag = "Float"
             THEN pc' = pc + 1 /\ result' = ReturnedErr(pc + 1, "TypeMismatch")
             ELSE pc' = AsUsize(a.val.v) /\ result' = Running
    /\ UNCHANGED <<overflowChecks, code, rstack, value, divider, memory, callerVars>>

\* mutant of OpCall: the address pushed is that of the call opcode itself
OpCallPushesCallSite ==
    /\ Fetch({99})
    /\ Len(rstack) < MaxRStack
    /\ LET a == StackPop(stack)
       IN /\ stack' = a.st
          /\ IF a.err # "Ok"
             THEN /\ pc' = pc + 1 /\ rstack' = rstack
                  /\ result' = ReturnedErr(pc + 1, a.err)
             ELSE IF a.val.tag = "Float"
             THEN /\ pc' = pc + 1 /\ rstack' = rstack
                  /\ result' = ReturnedErr(pc + 1, "TypeMismatch")
             ELSE /\ rstack' = Append(rstack, pc)
                  /\ pc' = AsUsize(a.val.v)
                  /\ result' = Running
    /\ UNCHANGED <<overflowChecks, code, value, divider, memory, callerVars>>

\* 99 'c': call address
OpCall ==
    /\ Fetch({99})
    /\ Len(rstack) < MaxRStack
    /\ LET a == StackPop(stack)
       IN /\ stack' = a.st
          /\ IF a.err # "Ok"
             THEN /\ pc' = pc + 1 /\ rstack' = rstack
                  /\ result' = ReturnedErr(pc + 1, a.err)
             ELSE IF a.val.tag = "Float"
             THEN /\ pc' = pc + 1 /\ rstack' = rstack
                  /\ result' = ReturnedErr(pc + 1, "TypeMismatch")
             ELSE /\ rstack' = Append(rstack, pc + 1)
                  /\ pc' = AsUsize(a.val.v)
                  /\ result' = Running
    /\ UNCHANGED <<overflowChecks, code, value, divider, memory, callerVars>>

\* 100 'd'
OpDup == Fetch({100}) /\ StackArm(StackDup(stack))

\* 112 'p': debug, print type of variable and value
OpDebug == Fetch({112}) /\ StackArm(StackPop(stack))

\* 114 'r': drop
OpDrop == Fetch({114}) /\ StackArm(StackPop(stack))

\* 115 's'
OpSwap == Fetch({115}) /\ StackArm(StackSwap(stack))

\* 118 'v'
OpOver == Fetch({118}) /\ StackArm(StackOver(stack))

\* the condition of 'y' (jump if non-zero) on a data value
NonZero(d) == IF d.tag = "Float" THEN ~FloatIsZero(d) ELSE d.v # 0

\* mutant of IsZero: only an Int is ever zero, a Float never
IsZeroIntOnly(d) == d.tag = "Int" /\ d.v = 0

\* the condition of 'z' (jump if zero) on a data value
IsZero(d) == IF d.tag = "Float" THEN FloatIsZero(d) ELSE d.v = 0

\* mutant of CondJump: the address is type-checked as soon as it is popped,
\* before the data is popped
CondJumpChecksAddressFirst(op) ==
    LET a == StackPop(stack)
        d == StackPop(a.st)
    IN /\ stack' = IF a.err # "Ok" \/ a.val.tag = "Float" THEN a.st ELSE d.st
       /\ IF a.err # "Ok"
          THEN pc' = pc + 1 /\ result' = ReturnedErr(pc + 1, a.err)
          ELSE IF a.val.tag = "Float"
          THEN pc' = pc + 1 /\ result' = ReturnedErr(pc + 1, "TypeMismatch")
          ELSE IF d.err # "Ok"
          THEN pc' = pc + 1 /\ result' = ReturnedErr(pc + 1, d.err)
          ELSE /\ pc' = IF (IF op = 121 THEN NonZero(d.val) ELSE IsZero(d.val))
                        THEN AsUsize(a.val.v) ELSE pc + 1
               /\ result' = Running
       /\ UNCHANGED <<overflowChecks, code, rstack, value, divider, memory, callerVars>>

\* what 'y' (op = 121) and 'z' (op = 122) share: pop the address, pop the
\* data, check the address, jump when the condition of the opcode holds
CondJump(op) ==
    LET a == StackPop(stack)
        d == StackPop(a.st)
    IN /\ stack' = IF a.err # "Ok" THEN a.st ELSE d.st
       /\ IF a.err # "Ok"
          THEN pc' = pc + 1 /\ result' = ReturnedErr(pc + 1, a.err)
          ELSE IF d.err # "Ok"
          THEN pc' = pc + 1 /\ result' = ReturnedErr(pc + 1, d.err)
          ELSE IF a.val.tag = "Float"
          THEN pc' = pc + 1 /\ result' = ReturnedErr(pc + 1, "TypeMismatch")
          ELSE /\ pc' = IF (IF op = 121 THEN NonZero(d.val) ELSE IsZero(d.val))
                        THEN AsUsize(a.val.v) ELSE pc + 1
               /\ result' = Running
       /\ UNCHANGED <<overflowChecks, code, rstack, value, divider, memory, callerVars>>

\* mutant of OpJumpNonZero: pc is set to the address as soon as the address
\* is popped, so a failure to pop the data reports the jump target
OpJumpNonZeroEarlyPc ==
    /\ Fetch({121})
    /\ LET a == StackPop(stack)
           d == StackPop(a.st)
       IN /\ stack' = IF a.err # "Ok" THEN a.st ELSE d.st
          /\ IF a.err # "Ok"
             THEN pc' = pc + 1 /\ result' = ReturnedErr(pc + 1, a.err)
             ELSE IF a.val.tag = "Float"
             THEN pc' = pc + 1 /\ result' = ReturnedErr(pc + 1, "TypeMismatch")
             ELSE IF d.err # "Ok"
             THEN /\ pc' = AsUsize(a.val.v)
                  /\ result' = ReturnedErr(AsUsize(a.val.v), d.err)
             ELSE /\ pc' = IF NonZero(d.val) THEN AsUsize(a.val.v) ELSE pc + 1
                  /\ result' = Running
    /\ UNCHANGED <<overflowChecks, code, rstack, value, divider, memory, callerVars>>

\* 121 'y': jump if non-zero
OpJumpNonZero == Fetch({121}) /\ CondJump(121)

\* 122 'z': jump if zero
OpJumpZero == Fetch({122}) /\ CondJump(122)

\* _ : the extension point, with NullExtender
OpExtender ==
    /\ Fetch(0..255 \ BuiltinOpcodes)
    /\ StackArm(NullExtenderAtom(code[pc + 1], stack))

\* the loop ends: pc >= code.len()
EndOfProgram ==
    /\ result.kind = "Running"
    /\ pc >= Len(code)
    /\ result' = ReturnedOk
    /\ UNCHANGED <<overflowChecks, code, stack, pc, rstack, value, divider, memory,
                   instruction, callerVars>>

---------------------------------------------------------------------------
(* The arguments of run: the programs, stacks, memories and entry points   *)
(* the model starts from.                                                  *)

\* the bytes of the enumerated programs: every built-in opcode (three of the
\* ten numerals) and three bytes that are no built-in opcode
Opcodes == (BuiltinOpcodes \ Digits) \cup {48, 49, 57} \cup {0, 65, 255}

\* every program of at most MaxCode bytes
ShortPrograms == SeqsUpTo(Opcodes, MaxCode) \ {<<>>}

RunData == {DataInt(0), DataInt(1), DataInt(-1), DataFloat(0, 1), DataFloat(1, 2)}
RunStacks == SeqsUpTo(RunData, MaxInit)

Memory3 == <<DataInt(1), DataFloat(3, 2), DataInt(-1)>>
Memory4 == <<DataInt(0), DataInt(0), DataFloat(0, 1), DataInt(2)>>
RunMemories == {<<>>, Memory3, Memory4}

\* programs of the memory opcodes, and the stacks of addresses and values
\* they run on
MemoryPrograms == {<<82>>, <<87>>, <<87, 82>>, <<87, 87, 82>>, <<100, 87>>}
MemoryData == {DataInt(3), DataInt(7), DataInt(-1), DataInt(MinInt), DataFloat(1, 2)}
MemoryStacks == SeqsUpTo(MemoryData, MaxInit + 1)

\* programs of calls, returns and jumps, and the stacks of addresses they run on
ControlPrograms ==
    {<<99, 59>>,                 \* c;
     <<99, 99, 59>>,             \* cc;
     <<99, 59, 99, 59>>,         \* c;c;
     <<99, 99, 59, 59>>,         \* cc;;
     <<99, 32, 59, 98>>,         \* c ;b
     <<100, 99>>,                \* dc
     <<121, 59, 122, 59>>,       \* y;z;
     <<35, 48, 39, 98>>}         \* #0'b
ControlData == {DataInt(0), DataInt(1), DataInt(2), DataInt(3)}
ControlStacks == SeqsUpTo(ControlData, MaxInit)

\* programs of literals
LiteralPrograms ==
    {<<35, 49, 50, 39>>,                             \* #12'
     <<35, 49, 39, 50, 39>>,                         \* #1'2'
     <<35, 53, 46, 34>>,                             \* #5."
     <<35, 53, 36, 46, 46, 34, 39>>,                 \* #5$.."'
     <<35, 49, 54, 36, 39, 36, 39>>,                 \* #16$'$'
     <<35, 53, 39, 35, 55, 39, 87, 35, 51, 39, 82>>} \* #5'#7'W#3'R
LiteralStacks == {<<>>, <<DataFloat(1, 2)>>}

\* the numerals that spell n >= 0 in decimal
RECURSIVE DigitsOf(_)
DigitsOf(n) == IF n < 10 THEN <<48 + n>> ELSE DigitsOf(n \div 10) \o <<48 + (n % 10)>>

\* '#', numerals ds, "'" after a prefix that leaves the accumulator in
\* some other state
AccumulatorPrefixes == {<<>>, <<49, 50>>, <<57, 46, 36>>}   \* (none), 12, 9.$
DecimalProgram(pre, ds) == pre \o <<35>> \o ds \o <<39>>
DecimalPrograms ==
    {DecimalProgram(pre, ds) : pre \in AccumulatorPrefixes,
                               ds \in SeqsUpTo(Digits, MaxDigits) \ {<<>>}}

\* push v, push a, 'W', push b, 'R' with v an Int or a Float literal
ValueLiterals == {<<35, 53, 39>>, <<35, 53, 46, 34>>}       \* #5'  #5."
WriteReadProgram(vlit, a, b) ==
    vlit \o <<35>> \o DigitsOf(a) \o <<39, 87, 35>> \o DigitsOf(b) \o <<39, 82>>
WriteReadPrograms ==
    {WriteReadProgram(vlit, a, b) : vlit \in ValueLiterals,
                                    a \in 0..MaxAddr, b \in 0..MaxAddr}

\* every two-byte program
TwoBytePrograms == [1..2 -> Opcodes]
TwoByteStacks == SeqsUpTo({DataInt(0), DataInt(1), DataFloat(1, 2)}, 2)

Init ==
    /\ overflowChecks \in BOOLEAN
    /\ \/ /\ code \in ShortPrograms
          /\ stack \in RunStacks
          /\ memory = Memory3
          /\ pc = 0
       \/ /\ code \in TwoBytePrograms
          /\ stack \in TwoByteStacks
          /\ memory = Memory3
          /\ pc = 0
       \/ /\ code \in MemoryPrograms
          /\ stack \in MemoryStacks
          /\ memory \in RunMemories
          /\ pc = 0
       \/ /\ code \in ControlPrograms
          /\ stack \in ControlStacks
          /\ memory = Memory3
          /\ pc \in 0..(Len(code) + 1)
       \/ /\ code \in LiteralPrograms \cup DecimalPrograms
          /\ stack \in LiteralStacks
          /\ memory = Memory4
          /\ pc = 0
       \/ /\ code \in WriteReadPrograms
          /\ stack \in LiteralStacks
          /\ memory \in RunMemories
          /\ pc = 0
    /\ rstack = <<>>
    /\ value = 0
    /\ divider = DataFloat(1, 1)
    /\ instruction = -1
    /\ result = Running
    /\ script = <<>>
    /\ done = 0
    /\ ret = NoRet

Next ==
    \/ OpWhitespace
    \/ OpPushFloat
    \/ OpReset
    \/ OpNegate
    \/ OpModulus
    \/ OpPushInt
    \/ OpMul
    \/ OpAdd
    \/ OpSub
    \/ OpScale
    \/ OpDiv
    \/ OpNumeral
    \/ OpReturn
    \/ OpRead
    \/ OpWrite
    \/ OpBranch
    \/ OpCall
    \/ OpDup
    \/ OpDebug
    \/ OpDrop
    \/ OpSwap
    \/ OpOver
    \/ OpJumpNonZero
    \/ OpJumpZero
    \/ OpExtender
    \/ EndOfProgram

Spec == Init /\ [][Next]_vars

\* Runs for the claims about termination: every one-byte program, programs
\* without branch, call or jump entered at every position, and the branch
\* cycle "#0'b" entered at 0.
LoopProgram == <<35, 48, 39, 98>>                       \* #0'b
StraightPrograms ==
    LiteralPrograms
    \cup {<<100, 43, 59, 100>>,                         \* d+;d
          <<35, 50, 39, 100, 47, 65, 32>>,              \* #2'd/A(space)
          <<32, 115, 118, 45, 114, 112, 10>>,           \* (space)sv-rp(lf)
          <<35, 39, 100, 37, 59>>}                      \* #'d%;

\* every one-byte program
OneBytePrograms == {<<b>> : b \in Opcodes}

InitTerm ==
    /\ overflowChecks \in BOOLEAN
    /\ \/ /\ code \in OneBytePrograms
          /\ stack \in TwoByteStacks
          /\ memory = Memory3
          /\ pc = 0
       \/ /\ code \in StraightPrograms
          /\ stack \in TwoByteStacks
          /\ memory = Memory4
          /\ pc \in 0..(Len(code) + 1)
       \/ /\ code = LoopProgram
          /\ stack \in ControlStacks
          /\ memory = Memory3
          /\ pc = 0
    /\ rstack = <<>>
    /\ value = 0
    /\ divider = DataFloat(1, 1)
    /\ instruction = -1
    /\ result = Running
    /\ script = <<>>
    /\ done = 0
    /\ ret = NoRet

\* run is a sequential loop: as long as an iteration can be made, one is made
SpecTerm == InitTerm /\ [][Next]_vars /\ WF_vars(Next)

---------------------------------------------------------------------------
(* Claims about run                                                        *)

\* the interpreter is about to fetch the opcode at position pc
AtOpcode(ops) == result.kind = "Running" /\ pc < Len(code) /\ code[pc + 1] \in ops

\* C1: a call opcode ('c') at position p that executes with an Int address
\* on top of the operand stack pushes p+1 on the return-address stack; a
\* return opcode (';') pops the last entry pushed and not yet popped and sets
\* pc to it; no other opcode touches the return-address stack.  So the
\* return that pops the entry of a call resumes at p+1, one byte past the
\* call site, also with calls and returns nested in between; every entry
\* of the return-address stack is one past a call opcode.
C1_CallStep ==
    /\ (AtOpcode({99}) /\ stack # <<>> /\ Last(stack).tag = "Int")
          => /\ rstack' = Append(rstack, pc + 1)
             /\ result' = Running
    /\ (AtOpcode({59}) /\ rstack # <<>>)
          => /\ pc' = Last(rstack)
             /\ rstack' = Front(rstack)
             /\ result' = Running
    /\ AtOpcode(0..255 \ {59, 99}) => rstack' = rstack
    /\ \A i \in 1..Len(rstack') :
          /\ rstack'[i] \in 1..Len(code)
          /\ code[rstack'[i]] = 99
C1_CallReturnResumesPastCall == [][C1_CallStep]_vars

\* a return has resumed one past an inner call while an outer call is open
C1_Witness ==
    /\ result = Running
    /\ instruction = 59
    /\ Len(rstack) >= 1
    /\ pc \in 1..Len(code)
    /\ code[pc] = 99

\* C2: with NullExtender, executing a byte at position p that is no
\* built-in opcode ends run with Err((p+1, InvalidInstruction)), whatever
\* the byte, the stack and the memory.
C2_UnknownStep ==
    AtOpcode(0..255 \ BuiltinOpcodes)
        => /\ result' = ReturnedErr(pc + 1, "InvalidInstruction")
           /\ stack' = stack
           /\ memory' = memory
C2_UnknownOpcodeInvalidInstruction == [][C2_UnknownStep]_vars

C2_Witness ==
    /\ result.kind = "Err"
    /\ result.error = "InvalidInstruction"
    /\ instruction = 255
    /\ stack # <<>>

\* C3: whenever run returns an error, the pc of the returned pair is the
\* position of the faulting opcode plus one: not the jump target, not the
\* position of another opcode.
C3_ErrStep ==
    result'.kind = "Err"
        => /\ AtOpcode(0..255)
           /\ instruction' = code[pc + 1]
           /\ result'.pc = pc + 1
C3_ErrorReportsPcAfterOpcode == [][C3_ErrStep]_vars

\* a conditional jump popped its address (not its own position plus one)
\* and then failed for want of a data value
C3_Witness ==
    /\ result.kind = "Err"
    /\ result.error = "StackUnderflow"
    /\ instruction \in {121, 122}
    /\ code = <<121, 59, 122, 59>>
    /\ result.pc = 3

\* C4: a return opcode executed with the return-address stack empty ends
\* the run with Ok, leaves the operand stack and the memory as they were,
\* and nothing is executed after it (nor after any other end of the run).
C4_ReturnStep ==
    /\ result.kind = "Running"
    /\ (AtOpcode({59}) /\ rstack = <<>>)
          => /\ result' = ReturnedOk
             /\ stack' = stack
             /\ memory' = memory
C4_ReturnOnEmptyEndsRunOk == [][C4_ReturnStep]_vars

\* the run has ended with Ok at a return, with bytes of the program left
C4_Witness ==
    /\ result = ReturnedOk
    /\ instruction = 59
    /\ rstack = <<>>
    /\ pc < Len(code)
    /\ stack # <<>>

---------------------------------------------------------------------------
(* Claims about the Stack methods                                          *)

Arithmetic == {"add", "sub", "mul", "div", "modulus"}

\* the stack without its top n values
Below(s, n) == SubSeq(s, 1, Len(s) - n)

\* the top two values of the stack have different tags
MixedTop(s) == Len(s) >= 2 /\ s[Len(s)].tag # s[Len(s) - 1].tag

\* C5: pop_two, add, sub, mul, div and modulus on a stack whose top two
\* values have different tags (Int over Float, Float over Int) return
\* Err(TypeMismatch) and push nothing; and whenever an arithmetic method
\* pushes a result, its two operands had one tag and the result has it too.
C5_MixedStep ==
    \A m \in Arithmetic \cup {"pop_two"} :
        /\ (Calling(m) /\ MixedTop(stack))
              => /\ ret' = [err |-> "TypeMismatch", val |-> None]
                 /\ stack' = Below(stack, 2)
        /\ (Calling(m) /\ m \in Arithmetic /\ ret'.err = "Ok")
              => /\ Len(stack) >= 2
                 /\ ~MixedTop(stack)
                 /\ stack' = Append(Below(stack, 2), Last(stack'))
                 /\ Last(stack').tag = Last(stack).tag
C5_MixedTagsTypeMismatch == [][C5_MixedStep]_vars

\* add has returned TypeMismatch on an Int over a Float
C5_Witness ==
    /\ done = 1
    /\ script = <<Call("add", None)>>
    /\ ret.err = "TypeMismatch"
    /\ stack = <<DataInt(2)>>

\* C6: pop on an empty stack returns Err(StackUnderflow); push(v) appends v
\* and a pop right after it returns Ok(v), the same tag and value, and
\* removes it again; cast_to_int, cast_to_float and dup return
\* Err(StackUnderflow) on an empty stack; pop_two, swap and over return
\* Err(StackUnderflow) on a stack of fewer than two values.
C6_UnderflowStep ==
    /\ (Calling("pop") /\ stack = <<>>)
          => ret' = [err |-> "StackUnderflow", val |-> None] /\ stack' = <<>>
    /\ Calling("push")
          => ret'.err = "Ok" /\ stack' = Append(stack, script[done + 1].arg)
    /\ (Calling("pop") /\ done >= 1 /\ script[done].m = "push")
          => /\ ret' = [err |-> "Ok", val |-> script[done].arg]
             /\ Append(stack', script[done].arg) = stack
    /\ \A m \in {"cast_to_int", "cast_to_float", "dup"} :
          (Calling(m) /\ stack = <<>>) => ret'.err = "StackUnderflow"
    /\ \A m \in {"pop_two", "swap", "over"} :
          (Calling(m) /\ Len(stack) < 2) => ret'.err = "StackUnderflow"
C6_PopAndUnderflow == [][C6_UnderflowStep]_vars

\* a Float was pushed on a non-empty stack and popped again
C6_Witness ==
    /\ done = 2
    /\ script = <<Call("push", DataFloat(1, 2)), Call("pop", None)>>
    /\ ret = [err |-> "Ok", val |-> DataFloat(1, 2)]
    /\ Len(stack) = 2

\* push(b), add, push(b), sub applied to the stack s
AddThenSub(s, b) ==
    LET r == StackAdd(StackPush(s, DataInt(b)))
    IN IF r.err # "Ok" THEN r ELSE StackSub(StackPush(r.st, DataInt(b)))

\* the caller runs the script push(a), push(b), add, push(b), sub
RunsAddSub ==
    /\ Len(script) = 5
    /\ script[1].arg.tag = "Int"
    /\ script[2].arg.tag = "Int"
    /\ script = AddSubScript(script[1].arg.v, script[2].arg.v)

\* the second operands tried on every reachable stack; the scripts of
\* AddSubScripts try every pair of Int values
EdgeInts == {MinInt, -1, 0, 1, MaxInt}

\* a + b leaves the range of the Int and the build checks for overflow
AddPanics(a, b) == overflowChecks /\ ~InRange(a + b)

\* C7 as claimed: for all Int a and b and any stack below, push(a),
\* push(b), add, push(b), sub succeeds and leaves Int(a) on top with the
\* values below unchanged, also when a+b leaves the range of the Int.
C7_AddSubAlwaysIdentity ==
    /\ (RunsAddSub /\ done >= 1) => ret.err = "Ok"
    /\ (RunsAddSub /\ done = 5) => Last(stack) = script[1].arg

\* C7, what the code does: the sequence succeeds and leaves Int(a) on top
\* with the values below unchanged when a+b is within the range of the Int,
\* and in a build without overflow checks also when it is not (add wraps,
\* sub wraps back); in a build with overflow checks add panics when a+b
\* leaves the range, and the sequence ends there.
C7_AddSubIdentityUnlessOverflowPanics ==
    /\ \A b \in EdgeInts :
          (stack # <<>> /\ Last(stack).tag = "Int")
              => IF AddPanics(Last(stack).v, b)
                 THEN AddThenSub(stack, b).err = "Panic"
                 ELSE AddThenSub(stack, b) = Outcome(stack, "Ok", None)
    /\ RunsAddSub
          => LET a == script[1].arg.v
                 b == script[2].arg.v
             IN IF AddPanics(a, b)
                THEN done <= 3 /\ (done = 3 => ret.err = "Panic")
                ELSE /\ done >= 1 => ret.err = "Ok"
                     /\ done = 5 => /\ Last(stack) = DataInt(a)
                                    /\ Len(stack) <= 3

\* the sequence has run to its end with a+b above the range of the Int
C7_Witness ==
    /\ RunsAddSub
    /\ done = 5
    /\ ret.err = "Ok"
    /\ script[1].arg.v + script[2].arg.v > MaxInt
    /\ stack = <<DataInt(-1), DataFloat(3, 2), script[1].arg>>

\* C8: swap on a stack of at least two values, of any tags, exchanges the
\* top two and leaves everything below unchanged; swap applied twice
\* restores the stack.
C8_SwapStep ==
    /\ (Calling("swap") /\ Len(stack) >= 2)
          => /\ ret'.err = "Ok"
             /\ stack' = Below(stack, 2) \o <<stack[Len(stack)], stack[Len(stack) - 1]>>
             /\ StackSwap(stack').st = stack
    /\ (Calling("swap") /\ done >= 1 /\ script[done].m = "swap" /\ ret.err = "Ok")
          => /\ ret'.err = "Ok"
             /\ Len(stack') = Len(stack)
C8_SwapExchangesTopTwo == [][C8_SwapStep]_vars

\* swap has been applied twice to an Int over a Float over a third value
C8_Witness ==
    /\ done = 2
    /\ script = <<Call("swap", None), Call("swap", None)>>
    /\ ret.err = "Ok"
    /\ stack = <<DataInt(2), DataFloat(3, 2), DataInt(-1)>>

---------------------------------------------------------------------------
(* Claims about the memory opcodes and the literals                        *)

\* the value a value literal pushes
LiteralValue(vlit) ==
    IF vlit = <<35, 53, 39>> THEN DataInt(5) ELSE DataFloat(5, 1000)

\* C9: with a memory of length L > 0 and non-negative Int addresses a and
\* b with a mod L = b mod L, a 'W' that stores v at address a followed by an
\* 'R' at address b pushes v, with its tag (L = 4, a = 7, b = 3 among them).
C9_WriteThenReadSameCell ==
    (result = ReturnedOk /\ Len(code) >= 9 /\ code[Len(code)] = 82)
        => \A vlit \in ValueLiterals, a \in 0..MaxAddr, b \in 0..MaxAddr :
              (/\ code = WriteReadProgram(vlit, a, b)
               /\ Len(memory) > 0
               /\ a % Len(memory) = b % Len(memory))
                  => /\ stack # <<>>
                     /\ Last(stack) = LiteralValue(vlit)
                     /\ memory[(a % Len(memory)) + 1] = LiteralValue(vlit)

\* a Float written to address 7 of a memory of 4 cells was read at address 3
C9_Witness ==
    /\ result = ReturnedOk
    /\ code = WriteReadProgram(<<35, 53, 46, 34>>, 7, 3)
    /\ Len(memory) = 4
    /\ Last(stack) = DataFloat(1, 200)
    /\ instruction = 82

\* the decimal number the numerals ds spell
RECURSIVE DecimalValue(_)
DecimalValue(ds) ==
    IF ds = <<>> THEN 0
    ELSE (ds[1] - 48) * Pow(10, Len(ds) - 1) + DecimalValue(Tail(ds))

\* C10: from any state of the accumulator, '#', numerals d1..dk, "'"
\* pushes Int(n), n the decimal number d1..dk, when n fits the Int
\* ("#12'" pushes Int(12)).
C10_DecimalLiteralPushesInt ==
    (result = ReturnedOk /\ Len(code) >= 3 /\ code[Len(code)] = 39)
        => \A pre \in AccumulatorPrefixes :
              LET ds == SubSeq(code, Len(pre) + 2, Len(code) - 1)
              IN (/\ Len(ds) \in 1..(MaxDigits + 1)
                  /\ \A i \in 1..Len(ds) : ds[i] \in Digits
                  /\ code = DecimalProgram(pre, ds)
                  /\ DecimalValue(ds) <= MaxInt)
                     => /\ stack # <<>>
                        /\ Last(stack) = DataInt(DecimalValue(ds))
                        /\ value = DecimalValue(ds)

\* "#12'" has run after a prefix that left -9 and a divider of 1000
C10_Witness ==
    /\ result = ReturnedOk
    /\ code = DecimalProgram(<<57, 46, 36>>, <<49, 50>>)
    /\ stack = <<DataFloat(1, 2), DataInt(12)>>
    /\ divider = DataFloat(1, 1)

---------------------------------------------------------------------------
(* Claims about the operand order of the arithmetic methods                *)

\* q is the quotient of y by x (x # 0) truncated toward zero
IsTruncQuotient(q, y, x) == Abs(q * x) <= Abs(y) /\ Abs(y - q * x) < Abs(x)

\* C11: sub, div and modulus on a stack whose top two values x (top) and y
\* (beneath it) have one tag replace exactly those two by one result of
\* that tag and leave the rest of the stack alone; the result is y - x,
\* y / x, y % x: for Int in machine arithmetic, the quotient truncated
\* toward zero and the remainder with the sign of y; for finite Float
\* operands the exact difference and quotient.
C11_OperandStep ==
    \A m \in {"sub", "div", "modulus"} :
        (Calling(m) /\ Len(stack) >= 2 /\ ~MixedTop(stack) /\ ret'.err = "Ok")
            => LET x == stack[Len(stack)]
                   y == stack[Len(stack) - 1]
                   r == Last(stack')
               IN /\ stack' = Append(Below(stack, 2), r)
                  /\ r.tag = x.tag
                  /\ (x.tag = "Int" /\ m = "sub")
                        => /\ InRange(r.v)
                           /\ (r.v - (y.v - x.v)) % Pow(2, IntBits) = 0
                  /\ (x.tag = "Int" /\ m = "div")
                        => x.v # 0 /\ IsTruncQuotient(r.v, y.v, x.v)
                  /\ (x.tag = "Int" /\ m = "modulus")
                        => /\ x.v # 0
                           /\ \E q \in IntRange : /\ IsTruncQuotient(q, y.v, x.v)
                                                  /\ r.v = y.v - q * x.v
                  /\ (x.tag = "Float" /\ IsFinite(x) /\ IsFinite(y) /\ m = "sub")
                        => r.num * (y.den * x.den)
                              = (y.num * x.den - x.num * y.den) * r.den
                  /\ (x.tag = "Float" /\ IsFinite(x) /\ IsFinite(y) /\ m = "div"
                        /\ x.num # 0)
                        => r.num * (y.den * x.num) = (y.num * x.den) * r.den
C11_SecondFromTopIsLeftOperand == [][C11_OperandStep]_vars

\* modulus has replaced -1 beneath 2 by -1 (the sign of the left operand),
\* above a third value
C11_Witness ==
    /\ done = 1
    /\ script = <<Call("modulus", None)>>
    /\ ret.err = "Ok"
    /\ stack = <<DataInt(2), DataInt(-1)>>
    /\ overflowChecks

---------------------------------------------------------------------------
(* Claims about the conditional jumps and the literal accumulator          *)

\* the data value d is equal to zero: Int(0) or a Float that is 0.0
EqualsZero(d) == IF d.tag = "Int" THEN d.v = 0 ELSE d.num = 0 /\ d.den # 0

\* C12: 'y' and 'z' at position p executed with an Int address a on top of
\* the operand stack and a data value d beneath it remove exactly those two
\* values, leave the return-address stack alone and keep running; 'y' sets
\* pc to a (as a usize) exactly when d is not equal to zero and 'z' exactly
\* when d equals zero, and otherwise pc is p+1.
C12_JumpStep ==
    \A op \in {121, 122} :
        (AtOpcode({op}) /\ Len(stack) >= 2 /\ Last(stack).tag = "Int")
            => LET a == Last(stack).v
                   d == stack[Len(stack) - 1]
                   taken == IF op = 121 THEN ~EqualsZero(d) ELSE EqualsZero(d)
               IN /\ result' = Running
                  /\ stack' = Below(stack, 2)
                  /\ rstack' = rstack
                  /\ taken => pc' = AsUsize(a) /\ (a >= 0 => pc' = a)
                  /\ ~taken => pc' = pc + 1
C12_ConditionalJumpPolarity == [][C12_JumpStep]_vars

\* 'y' at position 0 has jumped to address 2, past the return at 1
C12_Witness ==
    /\ code = <<121, 59, 122, 59>>
    /\ instruction = 121
    /\ result = Running
    /\ pc = 2
    /\ stack = <<>>
    /\ rstack = <<>>

\* the opcodes that change the literal accumulator: '#', '$', '.', numerals
AccumulatorOpcodes == {35, 36, 46} \cup Digits

\* C13: the accumulator is (0, 1.0) before the first opcode of a run; only
\* '#', '$', '.' and the numerals change value or divider; "'" pushes
\* Int(value) and '"' a Float, and both leave the accumulator as it is, so
\* "#1'2'" pushes Int(1) and then Int(12).
C13_AccumulatorStep ==
    /\ instruction = -1 => value = 0 /\ divider = DataFloat(1, 1)
    /\ AtOpcode(0..255 \ AccumulatorOpcodes)
          => value' = value /\ divider' = divider
    /\ (AtOpcode({39}) /\ Len(stack) < MaxStack)
          => stack' = Append(stack, DataInt(value)) /\ result' = Running
    /\ (AtOpcode({34}) /\ Len(stack) < MaxStack)
          => /\ Front(stack') = stack
             /\ Last(stack').tag = "Float"
             /\ result' = Running
    /\ (code = <<35, 49, 39, 50, 39>> /\ result' = ReturnedOk)
          => \E below \in LiteralStacks :
                stack' = below \o <<DataInt(1), DataInt(12)>>
C13_AccumulatorKeptByPushes == [][C13_AccumulatorStep]_vars

\* "#1'2'" has run to its end: the second literal extended the first
C13_Witness ==
    /\ code = <<35, 49, 39, 50, 39>>
    /\ result = ReturnedOk
    /\ stack = <<DataFloat(1, 2), DataInt(1), DataInt(12)>>
    /\ value = 12

---------------------------------------------------------------------------
(* Claims about the address operand of the jumps and the memory opcodes    *)

\* the opcodes that pop an address and then a second value: 'W', 'y', 'z'
TwoPopOpcodes == {87, 121, 122}

\* C14 as claimed: 'y', 'z' or 'W' executed with a Float on top of the
\* operand stack fails with TypeMismatch whatever lies beneath it, also
\* when the Float is the only value on the stack.
C14_FloatStep ==
    (AtOpcode(TwoPopOpcodes) /\ stack # <<>> /\ Last(stack).tag = "Float")
        => result' = ReturnedErr(pc + 1, "TypeMismatch")
C14_FloatAddressAlwaysTypeMismatch == [][C14_FloatStep]_vars

\* C14 amended: 'y', 'z' or 'W' executed with a Float on top of the
\* operand stack and at least one value beneath it fails with TypeMismatch,
\* whatever that value is, after both have been popped; when the Float is
\* the only value it fails with StackUnderflow and the stack is left empty:
\* both values are popped before the address is type-checked.  Memory,
\* the return-address stack and the accumulator are not changed.
C14_FloatAmendedStep ==
    (AtOpcode(TwoPopOpcodes) /\ stack # <<>> /\ Last(stack).tag = "Float")
        => /\ result' = ReturnedErr(pc + 1, IF Len(stack) >= 2 THEN "TypeMismatch"
                                            ELSE "StackUnderflow")
           /\ stack' = IF Len(stack) >= 2 THEN Below(stack, 2) ELSE <<>>
           /\ memory' = memory
           /\ rstack' = rstack
C14_FloatAddressAfterBothPops == [][C14_FloatAmendedStep]_vars

\* 'W' has failed with TypeMismatch on a Float address above an Int value,
\* both popped, with a third value left
C14_Witness ==
    /\ code = <<87>>
    /\ result = ReturnedErr(1, "TypeMismatch")
    /\ stack = <<DataInt(3)>>
    /\ memory = Memory3

\* 'R' reads cell i (0-based) and 'W' writes cell i, with the Int address n
\* on top of the operand stack
AccessesCell(n, i) ==
    /\ i \in 0..(Len(memory) - 1)
    /\ AtOpcode({82})
          => /\ stack' = Append(Front(stack), memory[i + 1])
             /\ memory' = memory
             /\ result' = Running
    /\ (AtOpcode({87}) /\ Len(stack) >= 2)
          => /\ stack' = Below(stack, 2)
             /\ memory' = [memory EXCEPT ![i + 1] = stack[Len(stack) - 1]]
             /\ result' = Running

\* an 'R' or a 'W' with a value beneath is about to run with an Int address
\* on a memory that has cells
AddressedAccess ==
    /\ AtOpcode({82, 87})
    /\ stack # <<>>
    /\ Last(stack).tag = "Int"
    /\ Len(memory) > 0

\* C15 as claimed: for every Int address n, negative ones too, the cell
\* accessed is n mod L, the index in 0..L-1 congruent to n modulo L
\* (address -1 with L = 3 accesses cell 2).
C15_SignedStep ==
    AddressedAccess => AccessesCell(Last(stack).v, Last(stack).v % Len(memory))
C15_CellIsAddressModLength == [][C15_SignedStep]_vars

\* C15 amended: the cell accessed is (n as usize) mod L: n mod L for
\* n >= 0 and (2^w + n) mod L for n < 0, w the width of the Int; it is
\* always a cell of the array, and for a negative n it is the cell
\* congruent to n only when 2^w is a multiple of L.
C15_UnsignedStep ==
    AddressedAccess
        => LET n == Last(stack).v
               L == Len(memory)
               i == IF n >= 0 THEN n % L ELSE (Pow(2, IntBits) + n) % L
           IN /\ AccessesCell(n, i)
              /\ (Pow(2, IntBits) % L = 0) => i = n % L
C15_CellIsUnsignedAddressModLength == [][C15_UnsignedStep]_vars

\* "dW" has written the most negative address into the cell that address
\* selects in a memory of three cells, and it is not the cell congruent to it
C15_Witness ==
    /\ code = <<100, 87>>
    /\ result = ReturnedOk
    /\ stack = <<>>
    /\ \E i \in 1..3 : /\ memory = [Memory3 EXCEPT ![i] = DataInt(MinInt)]
                       /\ i - 1 # MinInt % 3

\* an 'R' or a 'W' is about to run on a memory of no cells
EmptyMemoryAccess == AtOpcode({82, 87}) /\ Len(memory) = 0

\* C16 as claimed: with a memory of no cells every 'R' and 'W' executed
\* ends in a fault, whatever the operand stack holds.
C16_AlwaysFaultStep == EmptyMemoryAccess => result' = Panic
C16_EmptyMemoryAlwaysFaults == [][C16_AlwaysFaultStep]_vars

\* C16 amended: with a memory of no cells an 'R' executed with an Int on
\* top of the operand stack, and a 'W' executed with an Int on top and a
\* value beneath it, end in a fault; an 'R' on an empty stack and a 'W' on
\* fewer than two values return StackUnderflow, and with a Float in the
\* address position (above a value, for 'W') they return TypeMismatch, as
\* they do with a memory that has cells.
C16_FaultStep ==
    EmptyMemoryAccess
        => LET needed == IF code[pc + 1] = 82 THEN 1 ELSE 2
           IN /\ Len(stack) < needed
                    => result' = ReturnedErr(pc + 1, "StackUnderflow")
              /\ (Len(stack) >= needed /\ Last(stack).tag = "Float")
                    => result' = ReturnedErr(pc + 1, "TypeMismatch")
              /\ (Len(stack) >= needed /\ Last(stack).tag = "Int")
                    => result' = Panic
              /\ memory' = memory
C16_EmptyMemoryFaultsOnIntAddress == [][C16_FaultStep]_vars

\* a 'W' has faulted on a memory of no cells
C16_Witness ==
    /\ code = <<87>>
    /\ instruction = 87
    /\ memory = <<>>
    /\ result = Panic

---------------------------------------------------------------------------
(* Claims about what a failing Stack method leaves behind                  *)

\* C17: a failing pop_two, swap or over does not put back what it popped:
\* pop_two on exactly two values of different tags returns TypeMismatch
\* and leaves the stack empty, so that a cast_to_int right after it returns
\* StackUnderflow; pop_two, swap and over on exactly one value return
\* StackUnderflow and that value is gone.
C17_NoRestoreStep ==
    /\ (Calling("pop_two") /\ Len(stack) = 2 /\ MixedTop(stack))
          => ret'.err = "TypeMismatch" /\ stack' = <<>>
    /\ (/\ Calling("cast_to_int")
        /\ done >= 1
        /\ script[done].m = "pop_two"
        /\ ret.err = "TypeMismatch"
        /\ stack = <<>>)
          => ret'.err = "StackUnderflow" /\ stack' = <<>>
    /\ \A m \in {"pop_two", "swap", "over"} :
          (Calling(m) /\ Len(stack) = 1)
              => ret'.err = "StackUnderflow" /\ stack' = <<>>
C17_FailedPopTwoKeepsNothing == [][C17_NoRestoreStep]_vars

\* tests::it_works: after pop_two failed on Int(5) beneath Float(2.0),
\* cast_to_int has found the stack empty
C17_Witness ==
    /\ script = ItWorksScript
    /\ done = 7
    /\ ret.err = "StackUnderflow"
    /\ stack = <<>>

---------------------------------------------------------------------------
(* Claims about the program counter, the return-address stack and the end  *)
(* of a run                                                                *)

\* C18: the byte fetched in a step is the byte at pc, a position below
\* the length of the program; pc is a usize, also after a branch, call or
\* jump to a negative Int address; and when pc is at or beyond the length
\* of the program at the top of a step (an entry point out of range, a
\* branch, call, jump or return to such a position) the run ends with Ok
\* and nothing else changes.
C18_FetchStep ==
    /\ result = Running
    /\ pc' \in UsizeRange
    /\ pc >= Len(code)
          => /\ result' = ReturnedOk
             /\ UNCHANGED <<stack, memory, rstack, pc, value, divider, instruction>>
    /\ pc < Len(code)
          => /\ pc + 1 \in DOMAIN code
             /\ instruction' = code[pc + 1]
C18_NeverFetchesOutsideProgram == [][C18_FetchStep]_vars

\* a branch to the address -1 has ended the run with Ok
C18_Witness ==
    /\ code = <<98>>
    /\ instruction = 98
    /\ pc = Pow(2, IntBits) - 1
    /\ stack = <<DataInt(1)>>
    /\ result = ReturnedOk

\* every entry of the return-address stack rs is a position in
\* 1..Len(code) that is one past a call opcode
PastCalls(rs) == \A i \in 1..Len(rs) : rs[i] \in 1..Len(code) /\ code[rs[i]] = 99

\* C19: the return-address stack is empty before the first opcode of a
\* run; each of its entries is always a position in 1..len(program) one
\* past a call opcode; a step lengthens it by one entry only when it is a
\* call that succeeds, shortens it by one only when it is a return, and
\* every other opcode, and a call that fails with StackUnderflow or
\* TypeMismatch, leaves it as it is.
C19_RStackStep ==
    /\ instruction = -1 => rstack = <<>>
    /\ PastCalls(rstack) /\ PastCalls(rstack')
    /\ \/ /\ rstack' = Append(rstack, pc + 1)
          /\ AtOpcode({99})
          /\ result' = Running
       \/ /\ rstack # <<>>
          /\ rstack' = Front(rstack)
          /\ AtOpcode({59})
       \/ /\ rstack' = rstack
          /\ ~(AtOpcode({59}) /\ rstack # <<>>)
          /\ AtOpcode({99})
                => /\ result'.kind = "Err"
                   /\ result'.error \in {"StackUnderflow", "TypeMismatch"}
C19_RStackHoldsReturnPoints == [][C19_RStackStep]_vars

\* two calls are open, the second made from the target of the first
C19_Witness ==
    /\ code = <<99, 99, 59, 59>>
    /\ instruction = 99
    /\ rstack = <<1, 2>>
    /\ result = Running

\* the program has no branch, call or conditional jump
StraightLine == \A i \in DOMAIN code : code[i] \notin {98, 99, 121, 122}

\* the run has ended: it returned, or it panicked
Terminated == result.kind \in {"Ok", "Err", "Panic"}

\* a step of a program without branch, call or jump executes the byte at pc
\* and moves pc to pc + 1, or ends the run
C20_StraightStep ==
    (StraightLine /\ result = Running)
        => IF pc < Len(code)
           THEN pc' = pc + 1 /\ rstack' = <<>>
           ELSE Terminated' /\ pc' = pc

\* C20: in a run of a program without 'b', 'c', 'y', 'z' (NullExtender)
\* every step moves pc up by one until pc reaches the length of the
\* program, so the run ends, after at most len(program) - initial pc
\* opcodes; and a run of the branch cycle "#0'b" entered at 0 never ends.
C20_StraightLineTerminates ==
    /\ [][C20_StraightStep]_vars
    /\ (StraightLine ~> Terminated)
    /\ [](code = LoopProgram => result = Running)
    /\ (code = LoopProgram ~> (instruction = 98 /\ pc = 0))

\* '#5$.."' followed by "'" has run from its first byte to its end
C20_Witness ==
    /\ code = <<35, 53, 36, 46, 46, 34, 39>>
    /\ result = ReturnedOk
    /\ pc = Len(code)
    /\ Len(stack) = 4
    /\ instruction = 39

===========================================================================
